---- MODULE Spec2Model ----
(***************************************************************************)
(* Model of zuiyouxiu/droid-apikey-usage (src/main.ts).                    *)
(*                                                                         *)
(* Part 1: ConcurrentTaskRunner.run of the dashboard page                  *)
(*         (main.ts 1852-1889), specification RunnerSpec.                  *)
(* Part 2: fetchApiKeyData / getAggregatedData / handler of the server     *)
(*         (main.ts 2986-3174), specification AggSpec.                     *)
(*         FanoutSpec: many credentials; FetcherSpec: one credential.      *)
(* Part 3: the key store behind the key management routes                  *)
(*         (main.ts 58-126, 3176-3313), specification StoreSpec.           *)
(* Part 4: paging, selection and view mode of the dashboard page           *)
(*         (main.ts 1729-2671), specification UiSpec.                      *)
(* Part 5: the one taskRunner shared by preloadKeysToCache and             *)
(*         batchCopyKeys (main.ts 1889-2200), specification OverlapSpec.   *)
(* Part 6: import requests handled at the same time                        *)
(*         (main.ts 94-126), specification ImportsSpec.                    *)
(* Part 7: sessions and the protected routes of the handler                *)
(*         (main.ts 21-55, 3087-3160), specification AuthSpec.             *)
(* Part 8: the auto refresh timers of the dashboard page                   *)
(*         (main.ts 2826-2956), specification TimerSpec.                   *)
(* Part 9: selection, key cache and the delete actions of the page         *)
(*         (main.ts 1760-1850, 1922-2823), specification PageSpec.         *)
(***************************************************************************)
EXTENDS Integers, Sequences, FiniteSets

VARIABLES
    \* ---- ConcurrentTaskRunner ----
    concurrency,  \* this.concurrency, the constructor argument
    running,      \* this.running
    tasks,        \* tasks.length of the run() call
    runState,     \* "idle" | "running" | "resolved" | "rejected" : the promise run() returns
    index,        \* let index = 0 (number of task indices claimed so far)
    results,      \* const results = [] : slot per task position, Empty = never written
    taskState,    \* per task: "pending" | "inflight" | "settled"
    outcome,      \* per task: how it settled ("none" until it does)
    worker,       \* per worker promise of `workers`
    returned,     \* the array run() resolved with (<<>> until then)
    completed,    \* the task positions in the order in which the tasks settled
    claimed,      \* per task position: how often `index++` handed it out
    writes,       \* per task position: how often results[currentIndex] was assigned
    \* ---- server: getAggregatedData ----
    store,        \* Deno KV, prefix ["apikeys"], in list order
    callState,    \* "idle" | "fetching" | "returned" | "failed"
    keyEntries,   \* const keyEntries = await getAllApiKeys()
    fetchState,   \* per listed credential: "none" | "awaitResponse" | "done"
    response,     \* per listed credential: the upstream response it got
    fetched,      \* per listed credential: the value fetchApiKeyData returned
    snapshot,     \* the value getAggregatedData returned
    callError,    \* the message of the Error getAggregatedData threw
    log,          \* console.log / console.error lines written by the server
    requests,     \* number of upstream requests issued in the current call
    overtook,     \* a response arrived while an earlier-listed request was outstanding
    previous,     \* the value the call before the current one returned
    \* ---- server: key management routes ----
    now,          \* Date.now()
    importJob,    \* the batchImportKeys call in progress, its locals
    reply,        \* the response of the last key management request
    \* ---- dashboard page state ----
    allData,      \* let allData = null : the snapshot the page shows
    currentPage,  \* let currentPage = 1
    itemsPerPage, \* let itemsPerPage = getStoredPageSize() || 10
    currentViewMode, \* 'card' | 'table'
    selectedKeys, \* const selectedKeys = new Set()
    pageData,     \* the ids of the entries the last render put on the page
    lastCall,     \* the page function that ran last
    \* ---- taskRunner shared by preloadKeysToCache and batchCopyKeys ----
    runs,         \* per caller: the state of its taskRunner.run(tasks) call
    \* ---- server: import requests handled at the same time ----
    importJobs,   \* per request: the batchImportKeys call in progress, its locals
    \* ---- server: sessions and the protected routes ----
    passwordSet,  \* ADMIN_PASSWORD is configured
    sessions,     \* Deno KV, prefix ["sessions"]
    exchange,     \* the last request handled and its response
    \* ---- dashboard page: auto refresh ----
    phase,               \* "fresh" until DOMContentLoaded has run, then "ready"
    timers,              \* the interval timers of the window that are not cleared
    timerSeq,            \* the handle setInterval returned last
    autoRefreshInterval, \* let autoRefreshInterval = null
    countdownInterval,   \* let countdownInterval = null
    nextRefreshTime,     \* let nextRefreshTime = null
    autoRefreshMinutes,  \* let autoRefreshMinutes = 30
    localStorage,        \* localStorage: autoRefreshEnabled, autoRefreshInterval, apikey_cache
    loads,               \* loadData() calls whose fetch has not completed
    reload,              \* what the last completed loadData() did to the timer
    \* ---- dashboard page: key cache ----
    keyCache             \* keyCache.cache, the Map of the KeyCache of the page

runnerVars == <<concurrency, running, tasks, runState, index, results,
                taskState, outcome, worker, returned, completed, claimed, writes>>
aggVars == <<store, callState, keyEntries, fetchState, response, fetched,
             snapshot, callError, log, requests, overtook, previous>>
crudVars == <<now, importJob, reply>>
uiVars == <<allData, currentPage, itemsPerPage, currentViewMode, selectedKeys,
           pageData, lastCall>>
overlapVars == <<runs>>
importVars == <<importJobs>>
authVars == <<passwordSet, sessions, exchange>>
timerVars == <<phase, timers, timerSeq, autoRefreshInterval, countdownInterval,
              nextRefreshTime, autoRefreshMinutes, localStorage, loads, reload>>
cacheVars == <<keyCache>>
pageVars == <<timerVars, cacheVars>>
extVars == <<overlapVars, importVars, authVars, pageVars>>
vars == <<runnerVars, aggVars, crudVars, uiVars, extVars>>

----------------------------------------------------------------------------
(* Bounds *)
MaxTasks == 4
MaxK == 3
MaxCreds == 3
MaxFanout == 9
ShortKeyLen == 3
LongKeyLen == 10
MaxSecretLen == 9
MaxClock == 1
MaxBatch == 2
MaxStored == 2
MaxItems == 3
MaxPageSize == 2
MaxRunTasks == 8
MaxSessions == 2
MaxAuthClock == 2
MaxTimers == 6
MaxLoads == 2
MaxKeys == 2
MaxPageClock == 2

Min(a, b) == IF a < b THEN a ELSE b
Max(a, b) == IF a > b THEN a ELSE b

----------------------------------------------------------------------------
(* Part 1: ConcurrentTaskRunner *)

TaskIds == 1..MaxTasks
\* At most Math.min(concurrency, tasks.length) <= tasks.length workers exist.
WorkerIds == 1..MaxTasks

\* How a task's promise settles.
\*   resolve         : fulfils with the task's own value
\*   rejectError     : rejects with an Error carrying a message
\*   rejectNoMessage : rejects with a value that has no .message (a string, {})
\*   rejectNullish   : rejects with null / undefined (throw undefined, Promise.reject())
OutcomeKinds == {"resolve", "rejectError", "rejectNoMessage", "rejectNullish"}

Empty == [t |-> "empty", v |-> 0]

\* The value task i fulfils with / the message of the Error it rejects with:
\* distinct per task, so that a slot tells which task filled it.
TaskValue(i) == i

\* `results[currentIndex] = { error: error.message }` : reading .message of
\* null or undefined throws a TypeError inside the catch block.
CatchThrows(kind) == kind = "rejectNullish"

\* The slot value the try/catch of executeNext assigns for task i.
SlotFor(kind, i) ==
    CASE kind = "resolve"         -> [t |-> "value", v |-> TaskValue(i)]
      [] kind = "rejectError"     -> [t |-> "error", v |-> TaskValue(i)]
      [] kind = "rejectNoMessage" -> [t |-> "errorUndefined", v |-> 0]
      [] OTHER                    -> Empty

\* results.length of a JS array that is written by index.
ArrayLength(res) ==
    LET written == {i \in TaskIds : res[i] # Empty}
    IN  IF written = {} THEN 0 ELSE CHOOSE m \in written : \A j \in written : j <= m

\* Mutant of ArrayOf: only the slots holding a task's value are returned.
ArrayCompact(res) ==
    SelectSeq([i \in 1..ArrayLength(res) |-> res[i]], LAMBDA slot : slot.t = "value")
ArrayOf(res) == [i \in 1..ArrayLength(res) |-> res[i]]

\* Mutant of WorkerCount: one worker per task, the ceiling ignored.
WorkerCountPerTask == tasks
\* Array(Math.min(this.concurrency, tasks.length))
WorkerCount == Min(concurrency, tasks)

\* Mutant of StoreAt: results.push(slot), the slot lands in completion order.
StorePush(res, i, slot) == [res EXCEPT ![ArrayLength(res) + 1] = slot]
\* results[currentIndex] = slot
StoreAt(res, i, slot) == [res EXCEPT ![i] = slot]

NoWorker == [st |-> "none", task |-> 0, thrown |-> FALSE]

InFlight == {i \in TaskIds : taskState[i] = "inflight"}

RunnerInit ==
    /\ concurrency \in 0..MaxK
    /\ tasks \in 0..MaxTasks
    /\ running = 0
    /\ runState = "idle"
    /\ index = 0
    /\ results = [i \in TaskIds |-> Empty]
    /\ taskState = [i \in TaskIds |-> "pending"]
    /\ outcome = [i \in TaskIds |-> "none"]
    /\ worker = [w \in WorkerIds |-> NoWorker]
    /\ returned = <<>>
    /\ completed = <<>>
    /\ claimed = [i \in TaskIds |-> 0]
    /\ writes = [i \in TaskIds |-> 0]

\* run(tasks): the synchronous part.  Each of the WorkerCount calls of
\* executeNext() runs up to its first await: it claims index++, does
\* this.running++ and calls task().
RunStart ==
    /\ runState = "idle"
    /\ runState' = "running"
    /\ index' = WorkerCount
    /\ running' = running + WorkerCount
    /\ taskState' = [i \in TaskIds |->
                        IF i <= WorkerCount THEN "inflight" ELSE taskState[i]]
    /\ worker' = [w \in WorkerIds |->
                        IF w <= WorkerCount
                        THEN [st |-> "await", task |-> w, thrown |-> FALSE]
                        ELSE NoWorker]
    /\ claimed' = [i \in TaskIds |->
                        IF i <= WorkerCount THEN claimed[i] + 1 ELSE claimed[i]]
    /\ UNCHANGED <<concurrency, tasks, results, outcome, returned, completed, writes>>
    /\ UNCHANGED <<aggVars, crudVars, uiVars, extVars>>

\* The awaited task() of worker w settles: try/catch stores the slot, finally
\* does this.running-- and calls executeNext() again, which either returns at
\* once (index >= tasks.length) or claims the next index and starts its task.
\* An exception thrown by the catch block stays pending until the finally
\* block (and so the rest of this worker's chain) is over.
TaskSettle(w, kind) ==
    /\ worker[w].st = "await"
    /\ LET i == worker[w].task
           thrown == worker[w].thrown \/ CatchThrows(kind)
       IN  /\ outcome' = [outcome EXCEPT ![i] = kind]
           /\ completed' = Append(completed, i)
           /\ results' = IF CatchThrows(kind) THEN results
                         ELSE StoreAt(results, i, SlotFor(kind, i))
           /\ writes' = IF CatchThrows(kind) THEN writes
                         ELSE [writes EXCEPT ![i] = @ + 1]
           /\ IF index >= tasks
              THEN /\ running' = running - 1
                   /\ index' = index
                   /\ claimed' = claimed
                   /\ taskState' = [taskState EXCEPT ![i] = "settled"]
                   /\ worker' = [worker EXCEPT ![w] =
                                    [st |-> "returning", task |-> 0, thrown |-> thrown]]
              ELSE /\ running' = running
                   /\ index' = index + 1
                   /\ claimed' = [claimed EXCEPT ![index + 1] = @ + 1]
                   /\ taskState' = [taskState EXCEPT ![i] = "settled",
                                                     ![index + 1] = "inflight"]
                   /\ worker' = [worker EXCEPT ![w] =
                                    [st |-> "await", task |-> index + 1, thrown |-> thrown]]
    /\ UNCHANGED <<concurrency, tasks, runState, returned>>
    /\ UNCHANGED <<aggVars, crudVars, uiVars, extVars>>

\* The chain of `await executeNext()` of worker w unwinds: its promise fulfils,
\* or rejects with the exception a catch block of the chain threw.
WorkerReturn(w) ==
    /\ worker[w].st = "returning"
    /\ worker' = [worker EXCEPT ![w].st =
                     IF worker[w].thrown THEN "rejected" ELSE "resolved"]
    /\ UNCHANGED <<concurrency, running, tasks, runState, index, results,
                   taskState, outcome, returned, completed, claimed, writes>>
    /\ UNCHANGED <<aggVars, crudVars, uiVars, extVars>>

\* await Promise.all(workers); return results;
RunResolve ==
    /\ runState = "running"
    /\ \A w \in 1..WorkerCount : worker[w].st = "resolved"
    /\ runState' = "resolved"
    /\ returned' = ArrayOf(results)
    /\ UNCHANGED <<concurrency, running, tasks, index, results, taskState,
                   outcome, worker, completed, claimed, writes>>
    /\ UNCHANGED <<aggVars, crudVars, uiVars, extVars>>

\* Promise.all rejects as soon as one worker promise has rejected.
RunReject ==
    /\ runState = "running"
    /\ \E w \in 1..WorkerCount : worker[w].st = "rejected"
    /\ runState' = "rejected"
    /\ UNCHANGED <<concurrency, running, tasks, index, results, taskState,
                   outcome, worker, returned, completed, claimed, writes>>
    /\ UNCHANGED <<aggVars, crudVars, uiVars, extVars>>

RunnerNext ==
    \/ RunStart
    \/ \E w \in WorkerIds, kind \in OutcomeKinds : TaskSettle(w, kind)
    \/ \E w \in WorkerIds : WorkerReturn(w)
    \/ RunResolve
    \/ RunReject

-----------------------------------------------------------------------------
(* Claims about ConcurrentTaskRunner.run, checked under RunnerSpec *)

IsErrorSlot(slot) == slot.t \in {"error", "errorUndefined"}
Rejected(i) == outcome[i] \in {"rejectError", "rejectNoMessage", "rejectNullish"}

\* C1: when run() resolves for a runner with concurrency >= 1, the returned
\* array holds, at every task position i, the outcome of task i itself (its
\* value, or the placeholder made from its rejection), whatever the order in
\* which the tasks settled.
C1_OrderPreserved ==
    (runState = "resolved" /\ concurrency >= 1) =>
        \A i \in 1..tasks :
            /\ i \in DOMAIN returned
            /\ returned[i] = SlotFor(outcome[i], i)

\* A resolved run of at least three tasks in which a later task settled before
\* an earlier one and in which one task rejected and another fulfilled.
C1_Witness ==
    /\ runState = "resolved" /\ tasks >= 3 /\ concurrency >= 2
    /\ \E a, b \in 1..Len(completed) : a < b /\ completed[a] > completed[b]
    /\ \E i, j \in 1..tasks : outcome[i] = "resolve" /\ outcome[j] = "rejectError"

\* C2: the number of tasks of the run that were started and have not settled
\* never exceeds the runner's concurrency.
C2_CeilingRespected == Cardinality(InFlight) <= concurrency

\* The ceiling is reached again after a first task settled, with tasks left over.
C2_Witness ==
    /\ concurrency >= 2 /\ tasks > concurrency
    /\ Len(completed) >= 1
    /\ Cardinality(InFlight) = concurrency

\* C3: a rejecting task never makes run() reject; when run() resolves, the slot
\* of every rejected task holds an error placeholder, every task was executed
\* and every other slot holds its own task's value.
C3_FailureIsolated ==
    concurrency >= 1 =>
        /\ runState # "rejected"
        /\ runState = "resolved" =>
              \A i \in 1..tasks :
                 /\ taskState[i] = "settled"
                 /\ i \in DOMAIN returned
                 /\ Rejected(i) => IsErrorSlot(returned[i])
                 /\ ~Rejected(i) => returned[i] = [t |-> "value", v |-> TaskValue(i)]

\* C18: for concurrency >= 1 the array run() resolves with has exactly as many
\* elements as there were tasks; for no tasks it is empty and no task is started.
C18_LengthPreserved ==
    (runState = "resolved" /\ concurrency >= 1) =>
        /\ Len(returned) = tasks
        /\ tasks = 0 =>
              /\ returned = <<>>
              /\ \A i \in TaskIds : taskState[i] = "pending" /\ claimed[i] = 0

\* A resolved run of more tasks than workers in which a task rejected, so that
\* the array holds an error placeholder among the values.
C18_Witness ==
    /\ runState = "resolved" /\ concurrency >= 1 /\ tasks > concurrency
    /\ Len(returned) = tasks
    /\ \E i \in 1..tasks : IsErrorSlot(returned[i])

\* Every worker promise of the run has settled.
WorkersDone ==
    /\ runState # "idle"
    /\ \A w \in 1..WorkerCount : worker[w].st \in {"resolved", "rejected"}

\* C19: a run with concurrency >= 1 starts min(K, M) workers, never claims a
\* task position twice nor writes a result slot twice, and once its workers
\* are done every task position was claimed once and every slot written once.
C19_ExactlyOnce ==
    (concurrency >= 1 /\ runState # "idle") =>
        /\ Cardinality({w \in WorkerIds : worker[w] # NoWorker}) = Min(concurrency, tasks)
        /\ \A i \in TaskIds : claimed[i] <= 1 /\ writes[i] <= 1
        /\ WorkersDone =>
              \A i \in 1..tasks : claimed[i] = 1 /\ writes[i] = 1

\* C20: with concurrency 0 and one or more tasks, run() does not resolve while
\* a task was never executed.
C20_ZeroConcurrency ==
    (concurrency = 0 /\ tasks >= 1 /\ runState = "resolved") =>
        \A i \in 1..tasks : taskState[i] = "settled"

\* C24: when every started task settles and every continuation runs, a run
\* with concurrency >= 1 eventually resolves, and when it has resolved every
\* task of the call has been claimed and has settled.
C24_RunTerminates ==
    concurrency >= 1 =>
        /\ <>(runState = "resolved")
        /\ [](runState = "resolved" =>
                \A i \in 1..tasks : claimed[i] = 1 /\ taskState[i] = "settled")

-----------------------------------------------------------------------------
(* Part 2: the server's aggregation *)

\* ---- JavaScript values of the usage fields ----
Undefined == [t |-> "undefined", n |-> 0]
NaN == [t |-> "NaN", n |-> 0]
Num(n) == [t |-> "number", n |-> n]
IsNum(x) == x.t = "number"

\* x || 0
OrZero(x) == IF IsNum(x) /\ x.n # 0 THEN x ELSE Num(0)
\* x + y   (undefined and NaN operands give NaN)
JsAdd(x, y) == IF IsNum(x) /\ IsNum(y) THEN Num(x.n + y.n) ELSE NaN
\* x - y
JsSub(x, y) == IF IsNum(x) /\ IsNum(y) THEN Num(x.n - y.n) ELSE NaN
\* Math.max(x, y)
MathMax(x, y) == IF IsNum(x) /\ IsNum(y) THEN Num(Max(x.n, y.n)) ELSE NaN
\* x > 0   (NaN > 0 is false)
JsPositive(x) == IsNum(x) /\ x.n > 0

\* ---- secrets: strings as sequences of characters ----
KeyChars == <<"f", "k", "-", "a", "b", "c", "d", "e", "g", "h", "i", "j">>
Secret(n) == SubSeq(KeyChars, 1, n)
Dots == <<".", ".", ".">>

\* String.prototype.substring(a, b): arguments clamped to 0..length, swapped
\* when a > b; positions are 0-based and b is exclusive.
Clamp(x, len) == Max(0, Min(x, len))
Substring(s, a, b) ==
    LET ca == Clamp(a, Len(s))
        cb == Clamp(b, Len(s))
    IN  SubSeq(s, Min(ca, cb) + 1, Max(ca, cb))

\* `${key.substring(0, 4)}...`
TruncatedKey(key) == Substring(key, 0, 4) \o Dots
\* `${key.substring(0, 4)}...${key.substring(key.length - 4)}`
MaskedKey(key) == Substring(key, 0, 4) \o Dots \o Substring(key, Len(key) - 4, Len(key))

\* ---- upstream responses ----
\*   transport      : fetch() rejects
\*   http           : non-2xx status, body text readable
\*   httpUnreadable : non-2xx status, response.text() rejects
\*   badJson        : 2xx, response.json() rejects
\*   noStandard     : 2xx, JSON without usage or without usage.standard
\*   usage          : 2xx, JSON with usage.standard; either amount may be absent
Allowances == {Undefined, Num(50), Num(100)}
Useds == {Undefined, Num(50), Num(150)}
\* A usage payload: usage.standard.{orgTotalTokensUsed, totalAllowance, usedRatio}
\* and usage.{startDate, endDate}; any of them may be absent (Undefined).  The
\* ratio is counted in percent.
UsageResp(used, allowance, ratio, startDate, endDate) ==
    [kind |-> "usage", used |-> used, allowance |-> allowance, ratio |-> ratio,
     startDate |-> startDate, endDate |-> endDate]
Resp(kind, used, allowance) ==
    [kind |-> kind, used |-> used, allowance |-> allowance, ratio |-> Undefined,
     startDate |-> Undefined, endDate |-> Undefined]
NoResponse == Resp("none", Undefined, Undefined)
Responses ==
    {Resp(k, Undefined, Undefined) :
        k \in {"transport", "http", "httpUnreadable", "badJson", "noStandard"}}
    \cup {Resp("usage", u, a) : u \in Useds, a \in Allowances}

\* ---- fetchApiKeyData ----
NoError == "none"

\* formatDate(timestamp): 'N/A' for a missing timestamp, the ISO day of a
\* number, 'Invalid Date' when toISOString throws.
FormatDate(ts) ==
    CASE ts.t = "undefined" -> [t |-> "N/A", n |-> 0]
      [] ts.t = "number"    -> [t |-> "date", n |-> ts.n]
      [] OTHER              -> [t |-> "Invalid Date", n |-> 0]

ErrResult(id, key, msg) ==
    [id |-> id, key |-> TruncatedKey(key), error |-> msg,
     orgTotalTokensUsed |-> Undefined, totalAllowance |-> Undefined,
     usedRatio |-> Undefined, startDate |-> Undefined, endDate |-> Undefined]
OkResult(id, key, r) ==
    [id |-> id, key |-> MaskedKey(key), error |-> NoError,
     orgTotalTokensUsed |-> r.used, totalAllowance |-> r.allowance,
     usedRatio |-> r.ratio,
     startDate |-> FormatDate(r.startDate), endDate |-> FormatDate(r.endDate)]
NoResult == [id |-> 0, key |-> <<>>, error |-> "pending",
             orgTotalTokensUsed |-> Undefined, totalAllowance |-> Undefined,
             usedRatio |-> Undefined, startDate |-> Undefined, endDate |-> Undefined]

\* An exception in flight instead of a returned value.
Thrown == [id |-> 0, key |-> <<>>, error |-> "exception",
           orgTotalTokensUsed |-> Undefined, totalAllowance |-> Undefined,
           usedRatio |-> Undefined, startDate |-> Undefined, endDate |-> Undefined]

\* The try block of fetchApiKeyData: the value it returns for the upstream
\* response, or Thrown when fetch(), response.text() or response.json() rejects.
TryFetch(id, key, r) ==
    CASE r.kind = "http"       -> ErrResult(id, key, "HTTP status")
      [] r.kind = "noStandard" -> ErrResult(id, key, "Invalid API response structure")
      [] r.kind = "usage"      -> OkResult(id, key, r)
      [] OTHER                 -> Thrown

\* Mutant of FetchApiKeyData: no catch block, the exception escapes.
FetchApiKeyDataNoCatch(id, key, r) == TryFetch(id, key, r)
\* fetchApiKeyData(id, key): try block, and the catch block that turns any
\* exception into an error result.
FetchApiKeyData(id, key, r) ==
    LET v == TryFetch(id, key, r)
    IN  IF v = Thrown THEN ErrResult(id, key, "Failed to fetch") ELSE v

\* The console.error lines fetchApiKeyData writes for that response.
FetchLog(id, r) ==
    CASE r.kind = "http" -> {[kind |-> "fetchError", id |-> id, text |-> <<>>]}
      [] r.kind \in {"transport", "httpUnreadable", "badJson"} ->
                            {[kind |-> "processError", id |-> id, text |-> <<>>]}
      [] OTHER -> {}

\* ---- getAggregatedData ----
\* results.filter(r => !r.error)
IsValid(r) == r.error = NoError
SelectValid(rs) == SelectSeq(rs, IsValid)

ZeroTotals ==
    [total_orgTotalTokensUsed |-> Num(0),
     total_totalAllowance |-> Num(0),
     total_tokensRemaining |-> Num(0)]

\* Mutant of Accumulate: the remainder is summed without the per-item clamp.
AccumulateUnclamped(acc, res) ==
    [total_orgTotalTokensUsed |->
        JsAdd(acc.total_orgTotalTokensUsed, OrZero(res.orgTotalTokensUsed)),
     total_totalAllowance |->
        JsAdd(acc.total_totalAllowance, OrZero(res.totalAllowance)),
     total_tokensRemaining |->
        JsAdd(acc.total_tokensRemaining,
              JsSub(res.totalAllowance, res.orgTotalTokensUsed))]
\* The reducer of validResults.reduce(...)
Accumulate(acc, res) ==
    [total_orgTotalTokensUsed |->
        JsAdd(acc.total_orgTotalTokensUsed, OrZero(res.orgTotalTokensUsed)),
     total_totalAllowance |->
        JsAdd(acc.total_totalAllowance, OrZero(res.totalAllowance)),
     total_tokensRemaining |->
        JsAdd(acc.total_tokensRemaining,
              MathMax(JsSub(res.totalAllowance, res.orgTotalTokensUsed), Num(0)))]

RECURSIVE Reduce(_, _)
Reduce(rs, acc) == IF rs = <<>> THEN acc ELSE Reduce(Tail(rs), Accumulate(acc, Head(rs)))

Totals(rs) == Reduce(SelectValid(rs), ZeroTotals)

\* keysWithBalance = validResults.filter(remaining > 0)
HasBalance(r) ==
    JsPositive(JsSub(OrZero(r.totalAllowance), OrZero(r.orgTotalTokensUsed)))
KeysWithBalance(rs) == SelectSeq(SelectValid(rs), HasBalance)

\* keyEntries.find(e => e.id === item.id)
FindEntry(entries, id) ==
    LET hits == {i \in 1..Len(entries) : entries[i].id = id}
    IN  entries[CHOOSE i \in hits : \A j \in hits : i <= j]

\* What the keysWithBalance.forEach loop prints for one entry.
BalanceLine(entry) == [kind |-> "balanceKey", id |-> entry.id, text |-> entry.key]

\* The console.log lines of lines 3063-3076.
BalanceLog(entries, rs) ==
    LET kb == KeysWithBalance(rs)
    IN  IF Len(kb) > 0
        THEN {[kind |-> "balanceHeader", id |-> 0, text |-> <<>>]}
             \cup {BalanceLine(FindEntry(entries, kb[i].id)) : i \in 1..Len(kb)}
        ELSE {[kind |-> "noBalance", id |-> 0, text |-> <<>>]}

NoSnapshot == [total_count |-> 0, totals |-> ZeroTotals, data |-> <<>>]
\* Mutant of Snapshot: only the valid results are returned.
SnapshotValidOnly(entries, rs) ==
    [total_count |-> Len(entries), totals |-> Totals(rs), data |-> SelectValid(rs)]
\* The object getAggregatedData returns (update_time left out).
Snapshot(entries, rs) ==
    [total_count |-> Len(entries), totals |-> Totals(rs), data |-> rs]

\* const taskRunner = new ConcurrentTaskRunner(8)
DefaultConcurrency == 8

\* Mutant of IssueAll: only the first DefaultConcurrency requests are issued.
IssueBounded(entries) ==
    [i \in 1..Len(entries) |->
        IF i <= DefaultConcurrency THEN "awaitResponse" ELSE "none"]
\* keyEntries.map(entry => fetchApiKeyData(entry.id, entry.key)): every call runs
\* synchronously up to `await fetch(...)`, so all requests are issued at once.
IssueAll(entries) == [i \in 1..Len(entries) |-> "awaitResponse"]

\* Mutant of Collect: the settled value is pushed, so the list is in the
\* order of arrival.
CollectPush(fs, i, v) ==
    LET free == {j \in 1..Len(fs) : fs[j].error = "pending"}
    IN  [fs EXCEPT ![CHOOSE j \in free : \A k \in free : j <= k] = v]
\* Promise.all: the value of the i-th promise becomes the i-th element.
Collect(fs, i, v) == [fs EXCEPT ![i] = v]

InFlightRequests == {i \in 1..Len(fetchState) : fetchState[i] = "awaitResponse"}

\* The listings of the store: 0..MaxCreds credentials, long and short secrets
\* alternating.
Stores ==
    {[i \in 1..n |-> IF i % 2 = 1 THEN Secret(LongKeyLen) ELSE Secret(ShortKeyLen)] :
        n \in 0..MaxCreds}
Entries(keys) == [i \in 1..Len(keys) |-> [id |-> i, key |-> keys[i]]]

AggInit ==
    /\ store \in {Entries(ks) : ks \in Stores}
    /\ callState = "idle"
    /\ keyEntries = <<>>
    /\ fetchState = <<>>
    /\ response = <<>>
    /\ fetched = <<>>
    /\ snapshot = NoSnapshot
    /\ callError = "none"
    /\ log = {}
    /\ requests = 0
    /\ overtook = FALSE
    /\ previous = NoSnapshot

NoCredentials == "No API keys found in storage. Please import keys first."

\* Mutant of CallEmpty: no length check, the map over no entries and an empty
\* snapshot.
CallEmptyReturns ==
    /\ callState = "idle"
    /\ Len(store) = 0
    /\ keyEntries' = store
    /\ callState' = "returned"
    /\ snapshot' = Snapshot(store, <<>>)
    /\ UNCHANGED <<store, fetchState, response, fetched, callError, log, requests,
                   overtook, previous>>
    /\ UNCHANGED <<runnerVars, crudVars, uiVars, extVars>>
\* getAggregatedData with an empty listing: throws before any fetch.
CallEmpty ==
    /\ callState = "idle"
    /\ Len(store) = 0
    /\ keyEntries' = store
    /\ callState' = "failed"
    /\ callError' = NoCredentials
    /\ UNCHANGED <<store, fetchState, response, fetched, snapshot, log, requests,
                   overtook, previous>>
    /\ UNCHANGED <<runnerVars, crudVars, uiVars, extVars>>

\* Mutant of CallStart: once a snapshot exists, its results are reused and no
\* request is issued.
CallStartCached ==
    /\ callState = "idle"
    /\ Len(store) > 0
    /\ keyEntries' = store
    /\ callState' = "fetching"
    /\ IF snapshot = NoSnapshot
       THEN /\ fetchState' = IssueAll(store)
            /\ requests' = Len(store)
            /\ response' = [i \in 1..Len(store) |-> NoResponse]
            /\ fetched' = [i \in 1..Len(store) |-> NoResult]
       ELSE /\ requests' = 0
            /\ UNCHANGED <<fetchState, response, fetched>>
    /\ UNCHANGED <<store, snapshot, callError, log, overtook, previous>>
    /\ UNCHANGED <<runnerVars, crudVars, uiVars, extVars>>
\* getAggregatedData with credentials: list, then start every fetch.
CallStart ==
    /\ callState = "idle"
    /\ Len(store) > 0
    /\ keyEntries' = store
    /\ callState' = "fetching"
    /\ fetchState' = IssueAll(store)
    /\ requests' = Cardinality({i \in 1..Len(store) : IssueAll(store)[i] # "none"})
    /\ response' = [i \in 1..Len(store) |-> NoResponse]
    /\ fetched' = [i \in 1..Len(store) |-> NoResult]
    /\ UNCHANGED <<store, snapshot, callError, log, overtook, previous>>
    /\ UNCHANGED <<runnerVars, crudVars, uiVars, extVars>>

\* The upstream answers request i (or the transport fails) and fetchApiKeyData
\* of credential i settles.  A rejection would reject the Promise.all of line
\* 3041 and with it getAggregatedData.
Respond(i, r) ==
    /\ callState = "fetching"
    /\ i \in 1..Len(keyEntries)
    /\ fetchState[i] = "awaitResponse"
    /\ fetchState' = [fetchState EXCEPT ![i] = "done"]
    /\ response' = [response EXCEPT ![i] = r]
    /\ LET v == FetchApiKeyData(keyEntries[i].id, keyEntries[i].key, r)
       IN  /\ fetched' = Collect(fetched, i, v)
           /\ callState' = IF v = Thrown THEN "failed" ELSE callState
           /\ callError' = IF v = Thrown THEN "fetch rejected" ELSE callError
    /\ log' = log \cup FetchLog(keyEntries[i].id, r)
    /\ overtook' = (overtook \/ \E j \in 1..(i - 1) : fetchState[j] = "awaitResponse")
    /\ UNCHANGED <<store, keyEntries, snapshot, requests, previous>>
    /\ UNCHANGED <<runnerVars, crudVars, uiVars, extVars>>

\* Promise.all resolved: totals, the balance listing, the returned snapshot.
CallReturn ==
    /\ callState = "fetching"
    /\ \A i \in 1..Len(keyEntries) : fetchState[i] = "done"
    /\ callState' = "returned"
    /\ snapshot' = Snapshot(keyEntries, fetched)
    /\ log' = log \cup BalanceLog(keyEntries, fetched)
    /\ UNCHANGED <<store, keyEntries, fetchState, response, fetched, callError, requests,
                   overtook, previous>>
    /\ UNCHANGED <<runnerVars, crudVars, uiVars, extVars>>

AggNext ==
    \/ CallEmpty
    \/ CallStart
    \/ \E i \in 1..MaxCreds, r \in Responses : Respond(i, r)
    \/ CallReturn

\* The handler of /api/data has answered (with the snapshot, or with status 500)
\* and the next request for /api/data arrives: getAggregatedData is called anew.
NextCall ==
    /\ callState \in {"returned", "failed"}
    /\ callState' = "idle"
    /\ previous' = IF callState = "returned" THEN snapshot ELSE previous
    /\ UNCHANGED <<store, keyEntries, fetchState, response, fetched, snapshot,
                   callError, log, requests, overtook>>
    /\ UNCHANGED <<runnerVars, crudVars, uiVars, extVars>>

\* A sequence of calls: the upstream answers of one call may differ from those
\* of the call before.
RepeatResponses == {Resp("usage", Num(50), Num(100)), Resp("usage", Num(150), Num(100))}

RepeatNext ==
    \/ CallEmpty
    \/ CallStart
    \/ \E i \in 1..MaxCreds, r \in RepeatResponses : Respond(i, r)
    \/ CallReturn
    \/ NextCall

\* The fan-out alone: stores of up to MaxFanout credentials, two kinds of answer.
FanoutResponses == {Resp("transport", Undefined, Undefined), Resp("usage", Num(50), Num(100))}

FanoutInit ==
    /\ store \in {Entries([i \in 1..n |-> Secret(LongKeyLen)]) : n \in 0..MaxFanout}
    /\ callState = "idle"
    /\ keyEntries = <<>>
    /\ fetchState = <<>>
    /\ response = <<>>
    /\ fetched = <<>>
    /\ snapshot = NoSnapshot
    /\ callError = "none"
    /\ log = {}
    /\ requests = 0
    /\ overtook = FALSE
    /\ previous = NoSnapshot

FanoutNext ==
    \/ CallEmpty
    \/ CallStart
    \/ \E i \in 1..MaxFanout, r \in FanoutResponses : Respond(i, r)
    \/ CallReturn

\* The usage fetcher alone: one stored credential with a secret of 0..MaxSecretLen
\* characters, and every shape of usage payload.
FetcherResponses ==
    {Resp(k, Undefined, Undefined) :
        k \in {"transport", "http", "httpUnreadable", "badJson", "noStandard"}}
    \cup {UsageResp(u, a, q, sd, ed) :
            u \in {Undefined, Num(0), Num(50), Num(150)},
            a \in {Undefined, Num(0), Num(100)},
            q \in {Undefined, Num(50)},
            sd \in {Undefined, Num(1)},
            ed \in {Undefined, Num(2)}}

FetcherInit ==
    /\ store \in {Entries(<<Secret(n)>>) : n \in 0..MaxSecretLen}
    /\ callState = "idle"
    /\ keyEntries = <<>>
    /\ fetchState = <<>>
    /\ response = <<>>
    /\ fetched = <<>>
    /\ snapshot = NoSnapshot
    /\ callError = "none"
    /\ log = {}
    /\ requests = 0
    /\ overtook = FALSE
    /\ previous = NoSnapshot

FetcherNext ==
    \/ CallStart
    \/ \E r \in FetcherResponses : Respond(1, r)
    \/ CallReturn

-----------------------------------------------------------------------------
(* Claims about getAggregatedData, checked under AggSpec and FanoutSpec *)

RECURSIVE SumOver(_, _)
\* The integer sum of f[i] over the finite index set S.
SumOver(f, S) ==
    IF S = {} THEN 0
    ELSE LET x == CHOOSE y \in S : TRUE IN f[x] + SumOver(f, S \ {x})

Listed == 1..Len(keyEntries)
\* The credentials whose upstream response was accepted as an Ok result.
OkCreds == {i \in Listed : response[i].kind = "usage"}
ErrCreds == Listed \ OkCreds
\* Every accepted response carries both amounts.
AmountsPresent ==
    \A i \in OkCreds : IsNum(response[i].allowance) /\ IsNum(response[i].used)
AllowanceAt == [i \in OkCreds |-> response[i].allowance.n]
UsedAt == [i \in OkCreds |-> response[i].used.n]
ClampedAt == [i \in OkCreds |-> Max(response[i].allowance.n - response[i].used.n, 0)]
RemoveAt(rs, i) == SubSeq(rs, 1, i - 1) \o SubSeq(rs, i + 1, Len(rs))
Pair(i) == <<response[i].allowance, response[i].used>>
IsExample ==
    /\ Len(keyEntries) = 3 /\ OkCreds = {1, 2, 3}
    /\ Pair(1) = <<Num(100), Num(50)>>
    /\ Pair(2) = <<Num(100), Num(150)>>
    /\ Pair(3) = <<Num(50), Num(50)>>

C5_ClampedTotals ==
    (callState = "returned" /\ AmountsPresent) =>
        /\ snapshot.totals.total_totalAllowance = Num(SumOver(AllowanceAt, OkCreds))
        /\ snapshot.totals.total_orgTotalTokensUsed = Num(SumOver(UsedAt, OkCreds))
        /\ snapshot.totals.total_tokensRemaining = Num(SumOver(ClampedAt, OkCreds))
        /\ \A i \in OkCreds :
              UsedAt[i] > AllowanceAt[i] =>
                 Totals(RemoveAt(snapshot.data, i)).total_tokensRemaining
                    = snapshot.totals.total_tokensRemaining
        /\ IsExample =>
              snapshot.totals = [total_orgTotalTokensUsed |-> Num(250),
                                 total_totalAllowance |-> Num(250),
                                 total_tokensRemaining |-> Num(50)]

\* The snapshot of the list (100,50),(100,150),(50,50).
C5_Witness == callState = "returned" /\ IsExample

\* C6: a snapshot has one entry per stored credential, in total_count and in
\* the list; a credential whose fetch failed keeps its entry, marked as an
\* error, and adds nothing to the totals.
C6_ErrorsKeptNotCounted ==
    callState = "returned" =>
        /\ snapshot.total_count = Len(store)
        /\ Len(snapshot.data) = Len(store)
        /\ \A i \in 1..Len(store) : snapshot.data[i].id = store[i].id
        /\ \A i \in ErrCreds : snapshot.data[i].error # NoError
        /\ snapshot.totals.total_totalAllowance =
              Num(SumOver([i \in OkCreds |-> OrZero(response[i].allowance).n], OkCreds))
        /\ snapshot.totals.total_orgTotalTokensUsed =
              Num(SumOver([i \in OkCreds |-> OrZero(response[i].used).n], OkCreds))
        /\ AmountsPresent =>
              snapshot.totals.total_tokensRemaining = Num(SumOver(ClampedAt, OkCreds))

\* A snapshot over three credentials, some failed and some with a balance.
C6_Witness ==
    /\ callState = "returned" /\ Len(store) = 3
    /\ ErrCreds # {} /\ OkCreds # {}
    /\ JsPositive(snapshot.totals.total_tokensRemaining)

IsNonNegative(x) == IsNum(x) /\ x.n >= 0

\* C7: the three totals of every snapshot are numbers and are not negative.
C7_TotalsNonNegative ==
    callState = "returned" =>
        /\ IsNonNegative(snapshot.totals.total_totalAllowance)
        /\ IsNonNegative(snapshot.totals.total_orgTotalTokensUsed)
        /\ IsNonNegative(snapshot.totals.total_tokensRemaining)

\* C8: a call that listed no credential fails with the NoCredentials error
\* and has issued no upstream request.
C8_EmptyStoreFails ==
    (callState # "idle" /\ Len(store) = 0) =>
        /\ callState = "failed"
        /\ callError = NoCredentials
        /\ requests = 0
        /\ fetchState = <<>>

\* The call over the empty store has failed.
C8_Witness == callState = "failed" /\ Len(store) = 0 /\ keyEntries = <<>>

\* C9: with credentials stored the call never fails: every fetch settles with
\* a returned value, an error result when its request failed, and the
\* snapshot lists each failed credential as an error entry; a failed call is
\* the NoCredentials failure of an empty store.
C9_PerCredentialFailuresContained ==
    /\ Len(store) > 0 => callState # "failed"
    /\ callState = "failed" => callError = NoCredentials
    /\ \A i \in Listed :
          fetchState[i] = "done" =>
             /\ fetched[i] # Thrown
             /\ fetched[i].id = keyEntries[i].id
             /\ i \in ErrCreds => fetched[i].error \notin {NoError, "pending", "exception"}
    /\ callState = "returned" => snapshot.data = fetched

\* A returned snapshot in which a transport failure, an HTTP error status and
\* an unreadable body each left an error entry.
C9_Witness ==
    /\ callState = "returned"
    /\ \E i, j, k \in Listed :
          /\ response[i].kind = "transport" /\ response[j].kind = "http"
          /\ response[k].kind = "badJson"
          /\ snapshot.data[i].error = "Failed to fetch"
          /\ snapshot.data[j].error = "HTTP status"
          /\ snapshot.data[k].error = "Failed to fetch"

\* C10: no line of the log is the full secret of a stored credential.
C10_NoFullSecretLogged ==
    \A line \in log : \A i \in 1..Len(store) : line.text # store[i].key

-----------------------------------------------------------------------------
(* Claims about fetchApiKeyData, checked under FetcherSpec and AggSpec *)

\* The secret occurs, whole and contiguous, in the displayed value.
Contains(display, key) ==
    \E a \in 0..(Len(display) - Len(key)) : SubSeq(display, a + 1, a + Len(key)) = key
FirstFour(key) == SubSeq(key, 1, Min(4, Len(key)))
LastFour(key) == SubSeq(key, Max(1, Len(key) - 3), Len(key))

\* C11: the entry of a credential with a secret of one or more characters
\* displays, for an Ok result, the first four characters, "..." and the last
\* four characters, and no entry displays the whole secret.
C11_SecretMasked ==
    \A i \in Listed :
        (fetchState[i] = "done" /\ Len(keyEntries[i].key) >= 1) =>
            /\ fetched[i].error = NoError =>
                  fetched[i].key = FirstFour(keyEntries[i].key) \o Dots
                                     \o LastFour(keyEntries[i].key)
            /\ ~Contains(fetched[i].key, keyEntries[i].key)

\* C12: the list of a snapshot has the entry of the i-th listed credential at
\* position i, an error entry exactly where that credential's request failed.
C12_ListOrder ==
    callState = "returned" =>
        /\ keyEntries = store
        /\ Len(snapshot.data) = Len(store)
        /\ \A i \in 1..Len(store) :
              /\ snapshot.data[i].id = store[i].id
              /\ (snapshot.data[i].error = NoError) <=> (i \in OkCreds)

\* A snapshot over three credentials whose responses arrived out of listing
\* order and of which one failed.
C12_Witness ==
    /\ callState = "returned" /\ Len(store) = 3 /\ overtook
    /\ ErrCreds # {} /\ OkCreds # {}

\* C13: for a credential with an empty secret no upstream request is sent and
\* its result is an error result.
C13_EmptySecretRejected ==
    \A i \in Listed :
        keyEntries[i].key = <<>> =>
            /\ fetchState[i] # "awaitResponse"
            /\ response[i] = NoResponse
            /\ fetchState[i] = "done" => fetched[i].error \notin {NoError, "pending"}

\* The ratio in percent that C14 expects for an accepted usage payload.
ExpectedRatio(r) ==
    IF IsNum(r.ratio) THEN r.ratio
    ELSE IF r.allowance.n = 0 THEN Num(0)
    ELSE Num((r.used.n * 100) \div r.allowance.n)

\* C14: the usedRatio of an Ok result is the ratio the provider supplied, or
\* used/allowance when it supplied none, and 0 when the allowance is 0.
C14_UsedRatio ==
    \A i \in Listed :
        (/\ fetchState[i] = "done" /\ fetched[i].error = NoError
         /\ IsNum(response[i].ratio)
               \/ (IsNum(response[i].used) /\ IsNum(response[i].allowance))) =>
            fetched[i].usedRatio = ExpectedRatio(response[i])

\* The usage payload lacks one of the expected fields.
LacksField(r) ==
    \E x \in {r.used, r.allowance, r.ratio, r.startDate, r.endDate} : x = Undefined

\* C15: a usage payload that lacks an expected field gives the error result
\* of an invalid response structure, not an Ok result.
C15_MissingFieldsMalformed ==
    \A i \in Listed :
        (fetchState[i] = "done" /\ response[i].kind = "usage" /\ LacksField(response[i])) =>
            fetched[i].error = "Invalid API response structure"

\* C21: a call that returns has issued one request per listed credential, each
\* answered once, and its snapshot is computed from the answers of this call,
\* whatever calls came before.
C21_EveryCallRefetches ==
    callState = "returned" =>
        /\ keyEntries = store
        /\ requests = Len(store)
        /\ \A i \in Listed : fetchState[i] = "done" /\ response[i] # NoResponse
        /\ snapshot = Snapshot(keyEntries,
               [i \in 1..Len(keyEntries) |->
                   FetchApiKeyData(keyEntries[i].id, keyEntries[i].key, response[i])])

\* A later call has returned totals that differ from those of the call before.
C21_Witness ==
    /\ callState = "returned"
    /\ previous # NoSnapshot
    /\ previous.totals # snapshot.totals
    /\ Len(store) >= 2

-----------------------------------------------------------------------------
(* Part 3: the key store behind the key management routes *)

Blank == " "
\* String.prototype.trim, for the whitespace character Blank
RECURSIVE TrimLeft(_)
TrimLeft(s) == IF s # <<>> /\ Head(s) = Blank THEN TrimLeft(Tail(s)) ELSE s
RECURSIVE TrimRight(_)
TrimRight(s) ==
    IF s # <<>> /\ s[Len(s)] = Blank THEN TrimRight(SubSeq(s, 1, Len(s) - 1)) ELSE s
Trim(s) == TrimRight(TrimLeft(s))

\* `key-${Date.now()}` of a single add and `key-${Date.now()}-${i}` of an
\* import; kv.list yields the entries in the order of their ids.
SingleId(t) == [t |-> t, i |-> -1]
BatchId(t, i) == [t |-> t, i |-> i]
IdLess(a, b) == a.t < b.t \/ (a.t = b.t /\ a.i < b.i)

\* Mutant of KvSet: an entry is added even when its id is already stored.
KvSetInsert(s, e) ==
    SelectSeq(s, LAMBDA x : ~IdLess(e.id, x.id)) \o <<e>>
        \o SelectSeq(s, LAMBDA x : IdLess(e.id, x.id))
\* kv.set(["apikeys", id], entry): the entry stored under the id is replaced.
KvSet(s, e) ==
    SelectSeq(s, LAMBDA x : IdLess(x.id, e.id)) \o <<e>>
        \o SelectSeq(s, LAMBDA x : IdLess(e.id, x.id))
\* kv.delete(["apikeys", id])
KvDelete(s, id) == SelectSeq(s, LAMBDA x : x.id # id)

StoredIds == {store[j].id : j \in 1..Len(store)}
StoredKeys == {store[j].key : j \in 1..Len(store)}

\* The `key` of the body of POST /api/keys, a string.
AddInputs == {<<>>, <<Blank>>, <<"a">>}
\* The elements of `keys` of the body of POST /api/keys/import, strings.
ImportInputs == {<<Blank>>, <<Blank, "a">>, <<"b">>}
ImportLists == UNION {[1..n -> ImportInputs] : n \in 0..MaxBatch}

\* !key
Falsy(key) == key = <<>>

NoJob == [st |-> "idle", keys |-> <<>>, i |-> 0, existingKeySet |-> {},
          success |-> 0, duplicates |-> 0]

StoreInit ==
    /\ store = <<>>
    /\ now = 0
    /\ importJob = NoJob
    /\ reply = "none"

\* The rest of the server and the page, idle while the store is exercised.
StoreFrame ==
    UNCHANGED <<runnerVars, uiVars, extVars, callState, keyEntries, fetchState, response,
                fetched, snapshot, callError, log, requests, overtook, previous>>

\* Time passes.
Tick ==
    /\ now < MaxClock
    /\ now' = now + 1
    /\ UNCHANGED <<store, importJob, reply>>
    /\ StoreFrame

\* POST /api/keys
AddKey(key) ==
    /\ IF Falsy(key)
       THEN /\ reply' = "400 Key is required"
            /\ store' = store
       ELSE /\ store' = KvSet(store, [id |-> SingleId(now), key |-> key])
            /\ Len(store') <= MaxStored
            /\ reply' = "200 added"
    /\ UNCHANGED <<now, importJob>>
    /\ StoreFrame

\* POST /api/keys/import up to the loop of batchImportKeys: the existing keys
\* are read.
ImportStart(keys) ==
    /\ importJob.st = "idle"
    /\ importJob' = [st |-> "running", keys |-> keys, i |-> 0,
                     existingKeySet |-> StoredKeys, success |-> 0, duplicates |-> 0]
    /\ UNCHANGED <<store, now, reply>>
    /\ StoreFrame

\* One iteration of the loop of batchImportKeys.
ImportStep ==
    /\ importJob.st = "running"
    /\ importJob.i < Len(importJob.keys)
    /\ LET key == Trim(importJob.keys[importJob.i + 1])
       IN  IF Len(key) = 0
           THEN /\ importJob' = [importJob EXCEPT !.i = @ + 1]
                /\ store' = store
           ELSE IF key \in importJob.existingKeySet
           THEN /\ importJob' = [importJob EXCEPT !.i = @ + 1, !.duplicates = @ + 1]
                /\ store' = store
           ELSE /\ store' = KvSet(store, [id |-> BatchId(now, importJob.i), key |-> key])
                /\ Len(store') <= MaxStored
                /\ importJob' = [importJob EXCEPT !.i = @ + 1, !.success = @ + 1,
                                     !.existingKeySet = @ \cup {key}]
    /\ UNCHANGED <<now, reply>>
    /\ StoreFrame

\* batchImportKeys returns and the route answers with its counts.
ImportEnd ==
    /\ importJob.st = "running"
    /\ importJob.i = Len(importJob.keys)
    /\ importJob' = NoJob
    /\ reply' = "200 imported"
    /\ UNCHANGED <<store, now>>
    /\ StoreFrame

\* DELETE /api/keys/:id; POST /api/keys/batch-delete is a sequence of the same
\* deleteApiKey calls, one per id, with an await between them.
DeleteKey(id) ==
    /\ store' = KvDelete(store, id)
    /\ reply' = "200 deleted"
    /\ UNCHANGED <<now, importJob>>
    /\ StoreFrame

StoreNext ==
    \/ Tick
    \/ \E key \in AddInputs : AddKey(key)
    \/ \E keys \in ImportLists : ImportStart(keys)
    \/ ImportStep
    \/ ImportEnd
    \/ \E id \in StoredIds \cup {SingleId(0)} : DeleteKey(id)

\* C16: every stored credential has a non-empty secret and no two stored
\* credentials have the same id.
C16_StoreInvariant ==
    /\ \A j \in 1..Len(store) : store[j].key # <<>>
    /\ \A j, k \in 1..Len(store) : store[j].id = store[k].id => j = k

\* The store holds a credential of a single add and one of an import, made
\* within the same millisecond, and the last request was an add of an empty key.
C16_Witness ==
    /\ \E j, k \in 1..Len(store) :
          store[j].id.i = -1 /\ store[k].id.i >= 0 /\ store[j].id.t = store[k].id.t
    /\ importJob = NoJob
    /\ reply = "400 Key is required"

\* C25: a single add that answers success, and a step of an import that counts
\* a success, leave every credential that was stored in the store and add one
\* record to it.
C25_AddsNeverOverwrite ==
    [][((reply' = "200 added" /\ \E key \in AddInputs : AddKey(key))
         \/ (ImportStep /\ importJob'.success = importJob.success + 1))
       => (/\ Len(store') = Len(store) + 1
           /\ \A j \in 1..Len(store) : \E k \in 1..Len(store') : store'[k] = store[j])]_vars

-----------------------------------------------------------------------------
(* Part 4: paging, selection and view mode of the dashboard page *)

\* itemsPerPage of the page size 'all'
Infinity == 0
\* The page sizes: those the select offers, or any positive number found in
\* localStorage.
PageSizes == (1..MaxPageSize) \cup {Infinity}
ViewModes == {"card", "table"}
ItemIds == 1..MaxItems

\* allData: null, or a snapshot, of which data.map(item => item.id) is kept.
Null == [loaded |-> FALSE, data |-> <<>>]
RECURSIVE SortedSeq(_)
SortedSeq(S) ==
    IF S = {} THEN <<>>
    ELSE LET m == CHOOSE x \in S : \A y \in S : x <= y
         IN  <<m>> \o SortedSeq(S \ {m})
Loaded(ids) == [loaded |-> TRUE, data |-> SortedSeq(ids)]

\* Math.ceil(a / b) for b > 0
Ceil(a, b) == (a + b - 1) \div b
\* isUnlimited ? 1 : Math.max(1, Math.ceil(totalItems / itemsPerPage))
TotalPages(data, size) ==
    IF size = Infinity THEN 1 ELSE Max(1, Ceil(Len(data.data), size))

\* data.data.slice(startIndex, endIndex) of a render
PageSlice(data, size, page) ==
    IF size = Infinity THEN data.data
    ELSE SubSeq(data.data, (page - 1) * size + 1, Min(page * size, Len(data.data)))

\* Mutant of RenderCards: the current page is not brought back into range.
RenderCardsNoClamp(data, size, page) == page
\* renderCards(): the value it leaves in currentPage.
RenderCards(data, size, page) ==
    IF ~data.loaded THEN page
    ELSE IF page > TotalPages(data, size) THEN TotalPages(data, size) ELSE page
\* renderTable(): the value it leaves in currentPage.
RenderTable(data, size, page) ==
    IF ~data.loaded THEN page
    ELSE IF page > TotalPages(data, size) THEN TotalPages(data, size) ELSE page
\* if (currentViewMode === 'card') renderCards(); else renderTable();
RenderByMode(mode, data, size, page) ==
    IF mode = "card" THEN RenderCards(data, size, page) ELSE RenderTable(data, size, page)

UiInit ==
    /\ allData = Null
    /\ currentPage = 1
    /\ itemsPerPage \in PageSizes
    /\ currentViewMode \in ViewModes
    /\ selectedKeys = {}
    /\ pageData = <<>>
    /\ lastCall = "none"

\* The server and the runner, idle while the page is exercised.
UiFrame == UNCHANGED <<runnerVars, aggVars, crudVars, extVars>>

\* displayData(data), called by loadData with the snapshot of /api/data; a
\* snapshot lists at least one credential.
DisplayData(ids) ==
    /\ allData' = Loaded(ids)
    /\ currentPage' = RenderByMode(currentViewMode, allData', itemsPerPage, currentPage)
    /\ pageData' = PageSlice(allData', itemsPerPage, currentPage')
    /\ lastCall' = "displayData"
    /\ UNCHANGED <<itemsPerPage, currentViewMode, selectedKeys>>
    /\ UiFrame

\* Mutant of SwitchView: the view is switched and the first page is shown.
SwitchViewFirstPage(mode) ==
    /\ currentViewMode' = mode
    /\ currentPage' = 1
    /\ pageData' = IF allData.loaded THEN PageSlice(allData, itemsPerPage, 1) ELSE pageData
    /\ lastCall' = "switchView"
    /\ UNCHANGED <<allData, itemsPerPage, selectedKeys>>
    /\ UiFrame
\* switchView(mode)
SwitchView(mode) ==
    /\ currentViewMode' = mode
    /\ currentPage' = IF allData.loaded
                      THEN RenderByMode(mode, allData, itemsPerPage, currentPage)
                      ELSE currentPage
    /\ pageData' = IF allData.loaded
                   THEN PageSlice(allData, itemsPerPage, currentPage')
                   ELSE pageData
    /\ lastCall' = "switchView"
    /\ UNCHANGED <<allData, itemsPerPage, selectedKeys>>
    /\ UiFrame

\* changePage(page); a page out of range returns before anything is assigned.
ChangePage(page) ==
    /\ allData.loaded
    /\ IF itemsPerPage = Infinity
       THEN /\ currentPage' = RenderTable(allData, itemsPerPage, 1)
            /\ pageData' = PageSlice(allData, itemsPerPage, currentPage')
       ELSE IF page < 1 \/ page > TotalPages(allData, itemsPerPage)
       THEN UNCHANGED <<currentPage, pageData>>
       ELSE /\ currentPage' = RenderByMode(currentViewMode, allData, itemsPerPage, page)
            /\ pageData' = PageSlice(allData, itemsPerPage, currentPage')
    /\ lastCall' = "changePage"
    /\ UNCHANGED <<allData, itemsPerPage, currentViewMode, selectedKeys>>
    /\ UiFrame

\* changePageSize(value), for a value that parses to a size
ChangePageSize(newSize) ==
    /\ itemsPerPage' = newSize
    /\ currentPage' = RenderByMode(currentViewMode, allData, newSize, 1)
    /\ pageData' = IF allData.loaded THEN PageSlice(allData, newSize, currentPage')
                   ELSE pageData
    /\ lastCall' = "changePageSize"
    /\ UNCHANGED <<allData, currentViewMode, selectedKeys>>
    /\ UiFrame

\* toggleSelection(id), from the checkbox of a shown entry
ToggleSelection(id) ==
    /\ allData.loaded
    /\ \E j \in 1..Len(allData.data) : allData.data[j] = id
    /\ selectedKeys' = IF id \in selectedKeys THEN selectedKeys \ {id}
                       ELSE selectedKeys \cup {id}
    /\ lastCall' = "toggleSelection"
    /\ UNCHANGED <<allData, currentPage, itemsPerPage, currentViewMode, pageData>>
    /\ UiFrame

\* toggleSelectAll()
ToggleSelectAll ==
    /\ allData.loaded
    /\ LET allIds == {allData.data[j] : j \in 1..Len(allData.data)}
       IN  selectedKeys' = IF Cardinality(selectedKeys) = Len(allData.data)
                           THEN {} ELSE selectedKeys \cup allIds
    /\ currentPage' = RenderTable(allData, itemsPerPage, currentPage)
    /\ pageData' = PageSlice(allData, itemsPerPage, currentPage')
    /\ lastCall' = "toggleSelectAll"
    /\ UNCHANGED <<allData, itemsPerPage, currentViewMode>>
    /\ UiFrame

\* clearSelection()
ClearSelection ==
    /\ selectedKeys' = {}
    /\ currentPage' = RenderTable(allData, itemsPerPage, currentPage)
    /\ pageData' = IF allData.loaded
                   THEN PageSlice(allData, itemsPerPage, currentPage')
                   ELSE pageData
    /\ lastCall' = "clearSelection"
    /\ UNCHANGED <<allData, itemsPerPage, currentViewMode>>
    /\ UiFrame

UiNext ==
    \/ \E ids \in (SUBSET ItemIds) \ {{}} : DisplayData(ids)
    \/ \E mode \in ViewModes : SwitchView(mode)
    \/ \E page \in 0..(MaxItems + 1) : ChangePage(page)
    \/ \E newSize \in PageSizes : ChangePageSize(newSize)
    \/ \E id \in ItemIds : ToggleSelection(id)
    \/ ToggleSelectAll
    \/ ClearSelection

\* C17: a call of switchView, in any state of the page, leaves the current
\* page number and the set of selected keys as they were.
C17_SwitchViewKeepsPageAndSelection ==
    [][(\E mode \in ViewModes : SwitchView(mode)) =>
           (currentPage' = currentPage /\ selectedKeys' = selectedKeys)]_vars

\* The view was just switched to the other mode while a page after the first
\* was shown and keys were selected.
C17_Witness ==
    /\ lastCall = "switchView"
    /\ allData.loaded /\ currentPage > 1 /\ selectedKeys # {}
    /\ currentViewMode = "table"

\* The ids of the entries that belong to the given page.
OnPage(page) ==
    IF itemsPerPage = Infinity THEN 1..Len(allData.data)
    ELSE {j \in 1..Len(allData.data) :
            (page - 1) * itemsPerPage < j /\ j <= page * itemsPerPage}

\* C22: once data is loaded, the current page is within 1..totalPages and the
\* rendered entries are, in order, the entries of that page, after every page
\* function; a changePage call with a page outside 1..totalPages leaves the
\* page and the rendered entries as they were.
C22_PageWithinRange ==
    /\ [](allData.loaded =>
            /\ currentPage >= 1
            /\ currentPage <= (IF itemsPerPage = Infinity THEN 1
                                ELSE Max(1, Ceil(Len(allData.data), itemsPerPage)))
            /\ Len(pageData) = Cardinality(OnPage(currentPage))
            /\ \A j \in OnPage(currentPage) :
                  \E k \in 1..Len(pageData) :
                      /\ pageData[k] = allData.data[j]
                      /\ k = Cardinality({i \in OnPage(currentPage) : i <= j}))
    /\ [][\A page \in 0..(MaxItems + 1) :
            (/\ ChangePage(page)
             /\ page < 1 \/ page > (IF itemsPerPage = Infinity THEN 1
                                     ELSE Max(1, Ceil(Len(allData.data), itemsPerPage))))
            => (currentPage' = currentPage /\ pageData' = pageData)]_vars

\* displayData has just rendered a page after the first that is the last,
\* partly filled page of the list.
C22_Witness ==
    /\ lastCall = "displayData"
    /\ itemsPerPage # Infinity
    /\ currentPage > 1
    /\ currentPage * itemsPerPage >= Len(allData.data)
    /\ Len(pageData) >= 1 /\ Len(pageData) < itemsPerPage

-----------------------------------------------------------------------------
(* Part 5: the one taskRunner of the page, used by two callers *)

\* preloadKeysToCache and batchCopyKeys both call taskRunner.run
Callers == {"preload", "batchCopy"}

\* A run() call: its tasks.length, its index and the number of its workers
\* that await a task.
NoRun == [st |-> "idle", tasks |-> 0, index |-> 0, awaiting |-> 0]

OverlapInit ==
    /\ concurrency = DefaultConcurrency
    /\ running = 0
    /\ runs = [c \in Callers |-> NoRun]

\* The variables of the single run of Part 1, and the rest.
OverlapFrame ==
    UNCHANGED <<tasks, runState, index, results, taskState, outcome, worker,
                returned, completed, claimed, writes, aggVars, crudVars, uiVars,
                importVars, authVars, pageVars>>

\* taskRunner.run(tasks) of caller c, up to `await Promise.all(workers)`: each
\* of the Math.min(concurrency, tasks.length) workers claims an index, does
\* this.running++ and calls its task.
OverlapStart(c, m) ==
    /\ runs[c].st \in {"idle", "resolved"}
    /\ LET w == Min(concurrency, m)
       IN  /\ runs' = [runs EXCEPT ![c] =
                          [st |-> "running", tasks |-> m, index |-> w, awaiting |-> w]]
           /\ running' = running + w
    /\ UNCHANGED concurrency
    /\ OverlapFrame

\* A task of caller c's run settles (it fulfils, or rejects with an Error): the
\* finally block does this.running-- and executeNext either claims the next
\* index, with this.running++, or returns.
OverlapSettle(c) ==
    /\ runs[c].st = "running"
    /\ runs[c].awaiting > 0
    /\ IF runs[c].index < runs[c].tasks
       THEN /\ runs' = [runs EXCEPT ![c].index = @ + 1]
            /\ running' = (running - 1) + 1
       ELSE /\ runs' = [runs EXCEPT ![c].awaiting = @ - 1]
            /\ running' = running - 1
    /\ UNCHANGED concurrency
    /\ OverlapFrame

\* Promise.all(workers) of caller c's run resolves.
OverlapResolve(c) ==
    /\ runs[c].st = "running"
    /\ runs[c].awaiting = 0
    /\ runs' = [runs EXCEPT ![c].st = "resolved"]
    /\ UNCHANGED <<concurrency, running>>
    /\ OverlapFrame

OverlapNext ==
    \/ \E c \in Callers, m \in 0..MaxRunTasks : OverlapStart(c, m)
    \/ \E c \in Callers : OverlapSettle(c)
    \/ \E c \in Callers : OverlapResolve(c)

\* C23: the running counter of the taskRunner is within 0..concurrency in every
\* state, and is 0 whenever no run() call is in progress.
C23_RunningWithinCeiling ==
    /\ running >= 0
    /\ running <= concurrency
    /\ (\A c \in Callers : runs[c].st # "running") => running = 0

-----------------------------------------------------------------------------
(* Part 6: import requests handled at the same time *)

\* Two POST /api/keys/import requests; the handler of one runs while the other
\* waits at an await.
ImportRequests == {1, 2}

NonBlank(keys) == {j \in 1..Len(keys) : Len(Trim(keys[j])) > 0}

ImportsInit ==
    /\ store = <<>>
    /\ now = 0
    /\ importJob = NoJob
    /\ reply = "none"
    /\ importJobs = [q \in ImportRequests |-> NoJob]

ImportsFrame ==
    UNCHANGED <<runnerVars, uiVars, overlapVars, authVars, pageVars, callState, keyEntries, fetchState,
                response, fetched, snapshot, callError, log, requests, overtook,
                previous, importJob, reply>>

\* Time passes.
ImportsTick ==
    /\ now < MaxClock
    /\ now' = now + 1
    /\ UNCHANGED <<store, importJobs>>
    /\ ImportsFrame

\* Request q up to the loop of batchImportKeys: the existing keys are read.
JobStart(q, keys) ==
    /\ importJobs[q].st = "idle"
    /\ importJobs' = [importJobs EXCEPT ![q] =
                         [st |-> "running", keys |-> keys, i |-> 0,
                          existingKeySet |-> StoredKeys, success |-> 0,
                          duplicates |-> 0]]
    /\ UNCHANGED <<store, now>>
    /\ ImportsFrame

\* One iteration of the loop of batchImportKeys of request q.
JobStep(q) ==
    /\ importJobs[q].st = "running"
    /\ importJobs[q].i < Len(importJobs[q].keys)
    /\ LET job == importJobs[q]
           key == Trim(job.keys[job.i + 1])
       IN  IF Len(key) = 0
           THEN /\ importJobs' = [importJobs EXCEPT ![q].i = @ + 1]
                /\ store' = store
           ELSE IF key \in job.existingKeySet
           THEN /\ importJobs' = [importJobs EXCEPT ![q].i = @ + 1,
                                                    ![q].duplicates = @ + 1]
                /\ store' = store
           ELSE /\ store' = KvSet(store, [id |-> BatchId(now, job.i), key |-> key])
                /\ Len(store') <= MaxStored
                /\ importJobs' = [importJobs EXCEPT ![q].i = @ + 1,
                                                    ![q].success = @ + 1,
                                                    ![q].existingKeySet = @ \cup {key}]
    /\ UNCHANGED now
    /\ ImportsFrame

\* batchImportKeys of request q returns { success, failed, duplicates }.
JobEnd(q) ==
    /\ importJobs[q].st = "running"
    /\ importJobs[q].i = Len(importJobs[q].keys)
    /\ importJobs' = [importJobs EXCEPT ![q].st = "done"]
    /\ UNCHANGED <<store, now>>
    /\ ImportsFrame

\* The answer of request q is sent; the next import request arrives.
JobNext(q) ==
    /\ importJobs[q].st = "done"
    /\ importJobs' = [importJobs EXCEPT ![q] = NoJob]
    /\ UNCHANGED <<store, now>>
    /\ ImportsFrame

ImportsNext ==
    \/ ImportsTick
    \/ \E q \in ImportRequests, keys \in ImportLists : JobStart(q, keys)
    \/ \E q \in ImportRequests : JobStep(q)
    \/ \E q \in ImportRequests : JobEnd(q)
    \/ \E q \in ImportRequests : JobNext(q)

\* C26: the credentials of the store, which starts empty, have pairwise
\* distinct secrets after any imports, and an import that has returned reports
\* success + failed + duplicates = the number of its non-blank lines (failed
\* is 0: kv.set does not fail here).
C26_ImportKeepsSecretsDistinct ==
    /\ \A j, k \in 1..Len(store) : store[j].key = store[k].key => j = k
    /\ \A q \in ImportRequests :
          importJobs[q].st = "done" =>
              importJobs[q].success + importJobs[q].duplicates
                  = Cardinality(NonBlank(importJobs[q].keys))

-----------------------------------------------------------------------------
(* Part 7: sessions and the protected routes of the handler *)

SessionIds == 1..MaxSessions
\* The cookie of a request: a session id, or NoCookie.
NoCookie == 0
\* The lifetime of a session (7 days), in ticks of the clock of this part.
SessionTtl == 1

\* The API routes behind the authentication check; "unknown" is any other path.
Routes == {"data", "keys", "import", "full", "batchDelete", "delete", "add", "unknown"}
Requests ==
    [route : Routes, options : BOOLEAN, cookie : SessionIds \cup {NoCookie}]

\* The last request (its route left out) with what the handler did: the
\* status it answered, whether the code of the route ran (only that code reads
\* or writes ["apikeys"]), and what validateSession found.
NoExchange ==
    [options |-> FALSE, cookie |-> NoCookie, status |-> 0, routeRan |-> FALSE,
     session |-> "idle"]

HasSession(id) == \E ses \in sessions : ses.id = id
SessionOf(id) == CHOOSE ses \in sessions : ses.id = id

\* What validateSession finds for the cookie of a request.
SessionState(cookie) ==
    IF cookie = NoCookie THEN "none"
    ELSE IF ~HasSession(cookie) THEN "missing"
    ELSE IF now > SessionOf(cookie).expiresAt THEN "expired"
    ELSE "valid"

\* Mutant of IsAuthenticated: a session that is found counts, expired or not.
IsAuthenticatedNoExpiry(cookie) ==
    \/ ~passwordSet
    \/ SessionState(cookie) \in {"valid", "expired"}
\* isAuthenticated(req)
IsAuthenticated(cookie) ==
    \/ ~passwordSet
    \/ SessionState(cookie) = "valid"

\* validateSession deletes the session it finds expired; without a password
\* isAuthenticated returns before it looks at the cookie.
SessionsAfter(cookie) ==
    IF passwordSet /\ SessionState(cookie) = "expired"
    THEN sessions \ {SessionOf(cookie)}
    ELSE sessions

AuthInit ==
    /\ passwordSet \in BOOLEAN
    /\ sessions = {}
    /\ exchange = NoExchange
    /\ now = 0

AuthFrame ==
    UNCHANGED <<runnerVars, aggVars, uiVars, overlapVars, importVars, pageVars,
                importJob, reply>>

\* Time passes.
AuthTick ==
    /\ now < MaxAuthClock
    /\ now' = now + 1
    /\ UNCHANGED <<passwordSet, sessions, exchange>>
    /\ AuthFrame

\* POST /api/login with the right password: createSession and the cookie.
Login(id) ==
    /\ ~HasSession(id)
    /\ sessions' = sessions \cup {[id |-> id, expiresAt |-> now + SessionTtl]}
    /\ exchange' = [options |-> FALSE, cookie |-> NoCookie, status |-> 200,
                    routeRan |-> FALSE, session |-> "login"]
    /\ UNCHANGED <<now, passwordSet>>
    /\ AuthFrame

\* handler(req) for a request to an API route other than /api/login.
Handle(req) ==
    /\ IF req.options
       THEN /\ exchange' = [options |-> TRUE, cookie |-> req.cookie, status |-> 204,
                            routeRan |-> FALSE, session |-> SessionState(req.cookie)]
            /\ sessions' = sessions
       ELSE /\ sessions' = SessionsAfter(req.cookie)
            /\ exchange' =
                  IF passwordSet /\ ~IsAuthenticated(req.cookie)
                  THEN [options |-> FALSE, cookie |-> req.cookie, status |-> 401,
                        routeRan |-> FALSE, session |-> SessionState(req.cookie)]
                  ELSE [options |-> FALSE, cookie |-> req.cookie,
                        status |-> IF req.route = "unknown" THEN 404 ELSE 200,
                        routeRan |-> req.route # "unknown",
                        session |-> SessionState(req.cookie)]
    /\ UNCHANGED <<now, passwordSet>>
    /\ AuthFrame

AuthNext ==
    \/ AuthTick
    \/ \E id \in SessionIds : Login(id)
    \/ \E req \in Requests : Handle(req)

\* The request handled last went to an API route other than login and came
\* without a session that exists and is in date, with a password configured.
Unauthenticated ==
    /\ passwordSet
    /\ exchange.session \in {"none", "missing", "expired"}

\* C27 as stated: with a password configured, every request to an API route
\* other than login that carries no valid session is answered 401.
C27_ProtectedRoutes ==
    Unauthenticated => exchange.status = 401

\* C27, amended: such a request is answered 401, or 204 when its method is
\* OPTIONS; the code of its route does not run, so that it neither discloses
\* nor changes the stored credentials; and the session it named, if found
\* expired by a request other than OPTIONS, is deleted.
C27_ProtectedExceptPreflight ==
    Unauthenticated =>
        /\ exchange.status = (IF exchange.options THEN 204 ELSE 401)
        /\ ~exchange.routeRan
        /\ (exchange.session = "expired" /\ ~exchange.options)
              => ~HasSession(exchange.cookie)

\* A request that named an expired session was answered 401 and the session
\* is gone, while another session is still in the store.
C27_Witness ==
    /\ passwordSet
    /\ ~exchange.options
    /\ exchange.session = "expired"
    /\ exchange.status = 401
    /\ ~HasSession(exchange.cookie)
    /\ sessions # {}

----------------------------------------------------------------------------
(* Part 8: the auto refresh timers of the dashboard page *)

\* null, for a variable that holds a timer handle; handles are 1, 2, ...
NullTimer == 0
\* null, for nextRefreshTime.
NullTime == 0
\* let autoRefreshMinutes = 30
DefaultMinutes == 30
\* The interval a stored setting or the input field can hold, in minutes;
\* saveRefreshSettings accepts 1..1440.
MinMinutes == 1
MaxMinutes == 1440
MinuteInputs == {0, 1, MaxMinutes + 1}
\* localStorage.getItem returns null (NoSetting) for a key never stored.
NoSetting == 0
StoredMinutes == {NoSetting, 1}
EnabledFlags == {"null", "true", "false"}
NoReload == [enabled |-> FALSE, restarted |-> FALSE, done |-> FALSE]

\* Date.now(), in minutes; the page is opened after minute 0.
DateNow == now + 1

\* Mutant of ClearInterval: the timer keeps running.
ClearIntervalLeak(ts, h) == ts
\* clearInterval(h)
ClearInterval(ts, h) == {t \in ts : t.id # h}

\* startAutoRefresh(), with autoRefreshMinutes as its caller has set it.
StartAutoRefresh(minutes) ==
    LET cleared ==
          ClearInterval(
            IF autoRefreshInterval # NullTimer
            THEN ClearInterval(timers, autoRefreshInterval) ELSE timers,
            IF countdownInterval # NullTimer THEN countdownInterval ELSE NullTimer)
    IN  /\ timerSeq + 2 <= MaxTimers
        /\ nextRefreshTime' = DateNow + minutes
        /\ autoRefreshInterval' = timerSeq + 1
        /\ countdownInterval' = timerSeq + 2
        /\ timerSeq' = timerSeq + 2
        /\ timers' = cleared \cup {[id |-> timerSeq + 1, kind |-> "refresh"],
                                   [id |-> timerSeq + 2, kind |-> "countdown"]}
        /\ localStorage' = [localStorage EXCEPT !.autoRefreshEnabled = "true"]

\* stopAutoRefresh()
StopAutoRefresh ==
    /\ timers' = ClearInterval(
                   IF autoRefreshInterval # NullTimer
                   THEN ClearInterval(timers, autoRefreshInterval) ELSE timers,
                   IF countdownInterval # NullTimer THEN countdownInterval ELSE NullTimer)
    /\ autoRefreshInterval' = NullTimer
    /\ countdownInterval' = NullTimer
    /\ nextRefreshTime' = NullTime
    /\ localStorage' = [localStorage EXCEPT !.autoRefreshEnabled = "false"]
    /\ UNCHANGED timerSeq

TimerInit ==
    /\ phase = "fresh"
    /\ timers = {}
    /\ timerSeq = 0
    /\ autoRefreshInterval = NullTimer
    /\ countdownInterval = NullTimer
    /\ nextRefreshTime = NullTime
    /\ autoRefreshMinutes = DefaultMinutes
    /\ localStorage \in [autoRefreshEnabled : EnabledFlags,
                          autoRefreshInterval : StoredMinutes, apikey_cache : {{}}]
    /\ loads = 0
    /\ reload = NoReload
    /\ now = 0

TimerFrame ==
    UNCHANGED <<runnerVars, aggVars, uiVars, overlapVars, importVars, authVars,
                cacheVars, importJob, reply>>

\* Time passes.
TimerTick ==
    /\ now < MaxClock
    /\ now' = now + 1
    /\ UNCHANGED timerVars
    /\ TimerFrame

\* The DOMContentLoaded listener: loadData(), then initAutoRefresh().
DomContentLoaded ==
    /\ phase = "fresh"
    /\ phase' = "ready"
    /\ loads' = loads + 1
    /\ LET minutes == IF localStorage.autoRefreshInterval # NoSetting
                      THEN localStorage.autoRefreshInterval ELSE autoRefreshMinutes
       IN  /\ autoRefreshMinutes' = minutes
           /\ IF localStorage.autoRefreshEnabled \in {"null", "true"}
              THEN StartAutoRefresh(minutes)
              ELSE UNCHANGED <<timers, timerSeq, autoRefreshInterval, countdownInterval,
                               nextRefreshTime, localStorage>>
    /\ UNCHANGED <<reload, now>>
    /\ TimerFrame

\* toggleAutoRefresh(): the pause / start button.
ToggleAutoRefresh ==
    /\ phase = "ready"
    /\ IF autoRefreshInterval # NullTimer
       THEN StopAutoRefresh
       ELSE StartAutoRefresh(autoRefreshMinutes)
    /\ UNCHANGED <<phase, autoRefreshMinutes, loads, reload, now>>
    /\ TimerFrame

\* saveRefreshSettings() with the number parseInt read from the input field
\* (0 stands for NaN as well: both are refused).
SaveRefreshSettings(newInterval) ==
    /\ phase = "ready"
    /\ IF newInterval < MinMinutes \/ newInterval > MaxMinutes
       THEN UNCHANGED <<timers, timerSeq, autoRefreshInterval, countdownInterval,
                        nextRefreshTime, localStorage, autoRefreshMinutes>>
       ELSE /\ autoRefreshMinutes' = newInterval
            /\ IF autoRefreshInterval # NullTimer
               THEN StartAutoRefresh(newInterval)
               ELSE UNCHANGED <<timers, timerSeq, autoRefreshInterval, countdownInterval,
                                nextRefreshTime, localStorage>>
    /\ UNCHANGED <<phase, loads, reload, now>>
    /\ TimerFrame

\* An interval timer that was not cleared fires: the refresh timer calls
\* loadData(), the countdown timer updateCountdown(), which writes the page only.
TimerFires(t) ==
    /\ t \in timers
    /\ loads' = IF t.kind = "refresh" THEN loads + 1 ELSE loads
    /\ loads' <= MaxLoads
    /\ UNCHANGED <<phase, timers, timerSeq, autoRefreshInterval, countdownInterval,
                   nextRefreshTime, autoRefreshMinutes, localStorage, reload, now>>
    /\ TimerFrame

\* The refresh button: loadData().
RefreshClicked ==
    /\ phase = "ready"
    /\ loads < MaxLoads
    /\ loads' = loads + 1
    /\ UNCHANGED <<phase, timers, timerSeq, autoRefreshInterval, countdownInterval,
                   nextRefreshTime, autoRefreshMinutes, localStorage, reload, now>>
    /\ TimerFrame

\* The fetch of a loadData() call completes; with data, resetAutoRefresh() runs.
LoadCompletes(ok) ==
    /\ loads > 0
    /\ loads' = loads - 1
    /\ IF ok /\ autoRefreshInterval # NullTimer
       THEN StartAutoRefresh(autoRefreshMinutes)
       ELSE UNCHANGED <<timers, timerSeq, autoRefreshInterval, countdownInterval,
                        nextRefreshTime, localStorage>>
    /\ reload' = [enabled |-> autoRefreshInterval # NullTimer,
                  restarted |-> ok /\ autoRefreshInterval # NullTimer,
                  done |-> ok]
    /\ UNCHANGED <<phase, autoRefreshMinutes, now>>
    /\ TimerFrame

TimerNext ==
    \/ TimerTick
    \/ DomContentLoaded
    \/ ToggleAutoRefresh
    \/ \E newInterval \in MinuteInputs : SaveRefreshSettings(newInterval)
    \/ \E t \in timers : TimerFires(t)
    \/ RefreshClicked
    \/ \E ok \in BOOLEAN : LoadCompletes(ok)

Live(kind) == {t \in timers : t.kind = kind}

----------------------------------------------------------------------------
(* Part 9: selection, key cache and the delete actions of the dashboard page *)

KeyIds == 1..MaxKeys
\* The secret of the credential stored under an id.
KeyOf(id) == Secret(id)
\* The key store holding the credentials ids, in list order.
PageStore(ids) ==
    [j \in 1..Cardinality(ids) |-> [id |-> SortedSeq(ids)[j], key |-> KeyOf(SortedSeq(ids)[j])]]
\* The credentials whose totalAllowance - orgTotalTokensUsed is <= 0 upstream.
Exhausted == {1}
\* constructor(maxAge = 24 * 60 * 60 * 1000); the clock of this part counts
\* in units of maxAge.
CacheMaxAge == 1

\* allData.data.map(item => item.id)
DataIds == {allData.data[j] : j \in 1..Len(allData.data)}
CachedIds(c) == {e.id : e \in c}
Without(c, ids) == {e \in c : e.id \notin ids}

\* this.cache.set(id, {key, timestamp: Date.now()})
MapSet(c, id, key) == Without(c, {id}) \cup {[id |-> id, key |-> key, timestamp |-> now]}
\* get(id) !== null
CacheHas(c, id) ==
    \E e \in c : e.id = id /\ ~(now - e.timestamp > CacheMaxAge)
\* The map get(id) leaves: an entry found expired is deleted.
CacheAfterGet(c, id) == {e \in c : ~(e.id = id /\ now - e.timestamp > CacheMaxAge)}
\* get(id) wrote the map back to localStorage.
GetSaves(c, id) == CacheAfterGet(c, id) # c
\* The map after get(id) for every id of a list; one of them saved.
CacheAfterGets(c, ids) == {e \in c : ~(e.id \in ids /\ now - e.timestamp > CacheMaxAge)}
\* loadFromStorage(): only the entries that have not expired are loaded.
LoadFromStorage(stored) == {e \in stored : now - e.timestamp < CacheMaxAge}
\* batchSet(entries) for the entries [id, KeyOf(id)], id in ids.
RECURSIVE BatchSet(_, _)
BatchSet(c, ids) ==
    IF ids = {} THEN c
    ELSE LET id == CHOOSE x \in ids : TRUE
         IN  BatchSet(MapSet(c, id, KeyOf(id)), ids \ {id})

SaveToStorage(c) == [localStorage EXCEPT !.apikey_cache = c]

PageInit ==
    /\ store = PageStore(KeyIds)
    /\ allData = Null
    /\ currentPage = 1
    /\ itemsPerPage = Infinity
    /\ currentViewMode \in ViewModes
    /\ selectedKeys = {}
    /\ pageData = <<>>
    /\ lastCall = "none"
    /\ keyCache = {}
    /\ localStorage = [autoRefreshEnabled |-> "null", autoRefreshInterval |-> NoSetting,
                       apikey_cache |-> {}]
    /\ now = 0
    /\ phase = "fresh" /\ timers = {} /\ timerSeq = 0
    /\ autoRefreshInterval = NullTimer /\ countdownInterval = NullTimer
    /\ nextRefreshTime = NullTime /\ autoRefreshMinutes = DefaultMinutes
    /\ loads = 0 /\ reload = NoReload

PageFrame ==
    UNCHANGED <<runnerVars, overlapVars, importVars, authVars, importJob, reply,
                phase, timers, timerSeq, autoRefreshInterval, countdownInterval,
                nextRefreshTime, autoRefreshMinutes, loads, reload,
                callState, keyEntries, fetchState, response, fetched, snapshot,
                callError, log, requests, overtook, previous>>

\* Time passes.
PageTick ==
    /\ now < MaxPageClock
    /\ now' = now + 1
    /\ UNCHANGED <<store, uiVars, keyCache, localStorage>>
    /\ PageFrame

\* The page is opened again: its script starts with new KeyCache(), no data
\* and no selection.
PageOpened ==
    /\ lastCall # "none"
    /\ keyCache' = LoadFromStorage(localStorage.apikey_cache)
    /\ allData' = Null
    /\ currentPage' = 1
    /\ selectedKeys' = {}
    /\ pageData' = <<>>
    /\ lastCall' = "opened"
    /\ UNCHANGED <<store, now, itemsPerPage, currentViewMode, localStorage>>
    /\ PageFrame

\* loadData() completes with the snapshot of the stored credentials:
\* displayData(data), then preloadKeysToCache(data.data), whose requests for
\* the full keys are answered from the same store. (With no credential
\* stored /api/data answers an error and the page keeps what it shows.)
LoadData ==
    /\ Len(store) > 0
    /\ allData' = Loaded(StoredIds)
    /\ currentPage' = RenderByMode(currentViewMode, allData', itemsPerPage, currentPage)
    /\ pageData' = PageSlice(allData', itemsPerPage, currentPage')
    /\ lastCall' = "loadData"
    /\ LET afterHas == CacheAfterGets(keyCache, StoredIds)
           uncachedIds == {id \in StoredIds : ~CacheHas(keyCache, id)}
       IN  /\ keyCache' = BatchSet(afterHas, uncachedIds)
           /\ localStorage' = IF uncachedIds # {} \/ afterHas # keyCache
                              THEN SaveToStorage(keyCache') ELSE localStorage
    /\ UNCHANGED <<store, now, itemsPerPage, currentViewMode, selectedKeys>>
    /\ PageFrame

\* copyKey(id, button) of a credential the page shows.
CopyKey(id) ==
    /\ allData.loaded /\ id \in DataIds
    /\ LET afterGet == CacheAfterGet(keyCache, id)
           fetched_ok == ~CacheHas(keyCache, id) /\ id \in StoredIds
       IN  /\ keyCache' = IF fetched_ok THEN MapSet(afterGet, id, KeyOf(id)) ELSE afterGet
           /\ localStorage' = IF fetched_ok \/ GetSaves(keyCache, id)
                              THEN SaveToStorage(keyCache') ELSE localStorage
           /\ lastCall' = IF CacheHas(keyCache, id) \/ id \in StoredIds
                          THEN "copied" ELSE "copyFailed"
    /\ UNCHANGED <<store, now, allData, currentPage, itemsPerPage, currentViewMode,
                   selectedKeys, pageData>>
    /\ PageFrame

\* deleteKeyFromCard(id), confirmed, with the answer of DELETE /api/keys/:id.
DeleteKeyFromCard(id) ==
    /\ allData.loaded /\ id \in DataIds
    /\ store' = KvDelete(store, id)
    /\ keyCache' = Without(keyCache, {id})
    /\ selectedKeys' = selectedKeys \ {id}
    /\ lastCall' = "deleteKeyFromCard"
    /\ UNCHANGED <<now, allData, currentPage, itemsPerPage, currentViewMode, pageData,
                   localStorage>>
    /\ PageFrame

\* deleteKeyFromTable(id), confirmed, with the answer of DELETE /api/keys/:id.
DeleteKeyFromTable(id) ==
    /\ allData.loaded /\ id \in DataIds
    /\ store' = KvDelete(store, id)
    /\ lastCall' = "deleteKeyFromTable"
    /\ UNCHANGED <<now, allData, currentPage, itemsPerPage, currentViewMode, pageData,
                   selectedKeys, keyCache, localStorage>>
    /\ PageFrame

\* batchDeleteKeys() of the page, confirmed, with the answer of
\* POST /api/keys/batch-delete.
BatchDeleteKeys ==
    /\ selectedKeys # {}
    /\ store' = SelectSeq(store, LAMBDA x : x.id \notin selectedKeys)
    /\ keyCache' = Without(keyCache, selectedKeys)
    /\ selectedKeys' = {}
    /\ lastCall' = "batchDeleteKeys"
    /\ UNCHANGED <<now, allData, currentPage, itemsPerPage, currentViewMode, pageData,
                   localStorage>>
    /\ PageFrame

\* clearZeroBalanceKeys(), confirmed, every DELETE answered.
ClearZeroBalanceKeys ==
    /\ allData.loaded
    /\ DataIds \cap Exhausted # {}
    /\ store' = SelectSeq(store, LAMBDA x : x.id \notin (DataIds \cap Exhausted))
    /\ lastCall' = "clearZeroBalanceKeys"
    /\ UNCHANGED <<now, allData, currentPage, itemsPerPage, currentViewMode, pageData,
                   selectedKeys, keyCache, localStorage>>
    /\ PageFrame

PageNext ==
    \/ PageTick
    \/ PageOpened
    \/ LoadData
    \/ \E id \in KeyIds : CopyKey(id)
    \/ \E id \in KeyIds : DeleteKeyFromCard(id)
    \/ \E id \in KeyIds : DeleteKeyFromTable(id)
    \/ BatchDeleteKeys
    \/ ClearZeroBalanceKeys
    \/ \E id \in KeyIds : ToggleSelection(id)
    \/ ToggleSelectAll
    \/ ClearSelection

\* C29: the selected keys are ids of the loaded data, and select-all selects
\* every listed key when not all of them are selected and clears the
\* selection when all of them are.
C29_SelectionWithinData ==
    /\ [](allData.loaded => selectedKeys \subseteq DataIds)
    /\ [][(lastCall' = "toggleSelectAll" /\ ToggleSelectAll)
            => IF DataIds \subseteq selectedKeys
               THEN selectedKeys' = {}
               ELSE selectedKeys' = DataIds]_vars

\* C30: the key cache holds no secret of a credential that a delete action
\* of the page has removed, neither in its map nor in its localStorage copy,
\* and the localStorage copy equals the map.
C30_DeletedKeysLeaveCache ==
    /\ CachedIds(keyCache) \subseteq StoredIds
    /\ CachedIds(localStorage.apikey_cache) \subseteq StoredIds
    /\ localStorage.apikey_cache = keyCache

----------------------------------------------------------------------------
(* Specifications *)

RunnerIdle ==
    /\ concurrency = 0 /\ running = 0 /\ tasks = 0 /\ runState = "idle"
    /\ index = 0 /\ results = [i \in TaskIds |-> Empty]
    /\ taskState = [i \in TaskIds |-> "pending"]
    /\ outcome = [i \in TaskIds |-> "none"]
    /\ worker = [w \in WorkerIds |-> NoWorker]
    /\ returned = <<>> /\ completed = <<>>
    /\ claimed = [i \in TaskIds |-> 0] /\ writes = [i \in TaskIds |-> 0]

AggIdle ==
    /\ store = <<>> /\ callState = "idle" /\ keyEntries = <<>>
    /\ fetchState = <<>> /\ response = <<>> /\ fetched = <<>>
    /\ snapshot = NoSnapshot /\ callError = "none" /\ log = {} /\ requests = 0
    /\ overtook = FALSE /\ previous = NoSnapshot

CrudIdle == now = 0 /\ importJob = NoJob /\ reply = "none"

UiIdle ==
    /\ allData = Null /\ currentPage = 1 /\ itemsPerPage = Infinity
    /\ currentViewMode = "card" /\ selectedKeys = {} /\ pageData = <<>>
    /\ lastCall = "none"

OverlapIdle == runs = [c \in Callers |-> NoRun]
ImportIdle == importJobs = [q \in ImportRequests |-> NoJob]
AuthIdle == passwordSet = FALSE /\ sessions = {} /\ exchange = NoExchange
TimerIdle ==
    /\ phase = "fresh"
    /\ timers = {}
    /\ timerSeq = 0
    /\ autoRefreshInterval = NullTimer
    /\ countdownInterval = NullTimer
    /\ nextRefreshTime = NullTime
    /\ autoRefreshMinutes = DefaultMinutes
    /\ localStorage = [autoRefreshEnabled |-> "null", autoRefreshInterval |-> NoSetting,
                       apikey_cache |-> {}]
    /\ loads = 0
    /\ reload = NoReload
CacheIdle == keyCache = {}
PageIdle == TimerIdle /\ CacheIdle
ExtIdle == OverlapIdle /\ ImportIdle /\ AuthIdle /\ PageIdle

RunnerSpecInit == RunnerInit /\ AggIdle /\ CrudIdle /\ UiIdle /\ ExtIdle
AggSpecInit == AggInit /\ RunnerIdle /\ CrudIdle /\ UiIdle /\ ExtIdle
FanoutSpecInit == FanoutInit /\ RunnerIdle /\ CrudIdle /\ UiIdle /\ ExtIdle
FetcherSpecInit == FetcherInit /\ RunnerIdle /\ CrudIdle /\ UiIdle /\ ExtIdle
RepeatSpecInit == AggInit /\ RunnerIdle /\ CrudIdle /\ UiIdle /\ ExtIdle
StoreSpecInit == StoreInit /\ RunnerIdle /\ AggIdle /\ UiIdle /\ ExtIdle
UiSpecInit == UiInit /\ RunnerIdle /\ AggIdle /\ CrudIdle /\ ExtIdle
ImportsSpecInit ==
    ImportsInit /\ RunnerIdle /\ AggIdle /\ UiIdle /\ OverlapIdle /\ AuthIdle /\ PageIdle
AuthSpecInit ==
    /\ AuthInit
    /\ importJob = NoJob /\ reply = "none"
    /\ RunnerIdle /\ AggIdle /\ UiIdle /\ OverlapIdle /\ ImportIdle /\ PageIdle
TimerSpecInit ==
    /\ TimerInit
    /\ importJob = NoJob /\ reply = "none"
    /\ RunnerIdle /\ AggIdle /\ UiIdle /\ OverlapIdle /\ ImportIdle /\ AuthIdle
    /\ CacheIdle
PageSpecInit ==
    /\ PageInit
    /\ importJob = NoJob /\ reply = "none"
    /\ RunnerIdle /\ OverlapIdle /\ ImportIdle /\ AuthIdle
    /\ callState = "idle" /\ keyEntries = <<>>
    /\ fetchState = <<>> /\ response = <<>> /\ fetched = <<>>
    /\ snapshot = NoSnapshot /\ callError = "none" /\ log = {} /\ requests = 0
    /\ overtook = FALSE /\ previous = NoSnapshot
OverlapSpecInit ==
    /\ OverlapInit
    /\ ImportIdle /\ AuthIdle /\ PageIdle
    /\ tasks = 0 /\ runState = "idle" /\ index = 0
    /\ results = [i \in TaskIds |-> Empty]
    /\ taskState = [i \in TaskIds |-> "pending"]
    /\ outcome = [i \in TaskIds |-> "none"]
    /\ worker = [w \in WorkerIds |-> NoWorker]
    /\ returned = <<>> /\ completed = <<>>
    /\ claimed = [i \in TaskIds |-> 0] /\ writes = [i \in TaskIds |-> 0]
    /\ AggIdle /\ CrudIdle /\ UiIdle

RunnerSpec == RunnerSpecInit /\ [][RunnerNext]_vars
\* Every task that was started settles, and every continuation of the event
\* loop that is ready runs.
RunnerLiveSpec == RunnerSpecInit /\ [][RunnerNext]_vars /\ WF_vars(RunnerNext)
AggSpec == AggSpecInit /\ [][AggNext]_vars
FanoutSpec == FanoutSpecInit /\ [][FanoutNext]_vars
FetcherSpec == FetcherSpecInit /\ [][FetcherNext]_vars
RepeatSpec == RepeatSpecInit /\ [][RepeatNext]_vars
StoreSpec == StoreSpecInit /\ [][StoreNext]_vars
UiSpec == UiSpecInit /\ [][UiNext]_vars
OverlapSpec == OverlapSpecInit /\ [][OverlapNext]_vars
ImportsSpec == ImportsSpecInit /\ [][ImportsNext]_vars
PageSpec == PageSpecInit /\ [][PageNext]_vars
TimerSpec == TimerSpecInit /\ [][TimerNext]_vars
AuthSpec == AuthSpecInit /\ [][AuthNext]_vars

====
